---------------------------- MODULE Spec2Model ----------------------------
(***************************************************************************)
(* A model of the quiz application app.py: the question parser             *)
(* (load_questions, _df_to_questions), the graders (mc_grader,             *)
(* open_grader), the result log (save_result) and the two Streamlit page   *)
(* scripts (quiz mode, admin mode).                                        *)
(*                                                                         *)
(* A Python str is a sequence of one-character tokens; the token "^2"      *)
(* stands for the character U+00B2 (SUPERSCRIPT TWO), for which            *)
(* str.isdigit() is True and int() raises ValueError.  A Python float is   *)
(* an exact fraction [num, den] in lowest terms.  A call that may raise    *)
(* returns a record whose field exc names the exception ("" for none).     *)
(* A cell of an uploaded table is the text str() gives for it.             *)
(***************************************************************************)
EXTENDS Integers, Sequences, FiniteSets, TLC

VARIABLES
    df,       \* the table handed to load_questions (pure-function checks)
    parsed,   \* what load_questions returned for df
    graded,   \* what a grader returned for one answer to a parsed question
    now,      \* datetime.now(), in days
    inbox,    \* the files the administrator may choose in the uploader
    qfiles,   \* QUIZ_DIR: quiz id -> the stored definition file
    rfiles,   \* RES_DIR: quiz id -> the lines of the results file
    sess,     \* the respondent's browser session (query param, widget state)
    run,      \* what the last run of the page script did
    procs     \* concurrent save_result calls: each one's position and locals

vars == <<df, parsed, graded, now, inbox, qfiles, rfiles, sess, run, procs>>

-----------------------------------------------------------------------------
(* Bounds of the model *)

MaxAnsLen == 3
MaxRefLen == 3
MaxOptsLen == 3
MaxCorrLen == 3

StrUpTo(A, n) == UNION {[1..k -> A] : k \in 0..n}

\* Op applied to the value v: a local name for a value used several times
Bind(v, Op(_)) == Op(v)

-----------------------------------------------------------------------------
(* Python str operations *)

Lower(ch) ==
    CASE ch = "A" -> "a"
      [] ch = "B" -> "b"
      [] ch = "C" -> "c"
      [] ch = "M" -> "m"
      [] OTHER -> ch

lower(s) == [i \in 1..Len(s) |-> Lower(s[i])]

Whitespace == {" "}

strip(s) ==
    LET keep == {i \in 1..Len(s) : s[i] \notin Whitespace}
    IN  IF keep = {} THEN <<>>
        ELSE LET lo == CHOOSE i \in keep : \A j \in keep : i <= j
                 hi == CHOOSE i \in keep : \A j \in keep : i >= j
             IN  SubSeq(s, lo, hi)

RECURSIVE split(_, _)
split(s, sep) ==
    LET at == {i \in 1..Len(s) : s[i] = sep}
    IN  IF at = {} THEN <<s>>
        ELSE LET p == CHOOSE i \in at : \A j \in at : i <= j
             IN  <<SubSeq(s, 1, p - 1)>> \o split(SubSeq(s, p + 1, Len(s)), sep)

replace_empty(s, old) == SelectSeq(s, LAMBDA ch : ch # old)

DecimalChars == {"0", "1", "2"}
DigitChars == DecimalChars \cup {"^2"}

isdigit(s) == s # <<>> /\ \A i \in 1..Len(s) : s[i] \in DigitChars

DigitVal(ch) ==
    CASE ch = "0" -> 0
      [] ch = "1" -> 1
      [] ch = "2" -> 2
      [] OTHER -> 0

RECURSIVE DecimalValue(_)
DecimalValue(s) ==
    IF s = <<>> THEN 0
    ELSE 10 * DecimalValue(SubSeq(s, 1, Len(s) - 1)) + DigitVal(s[Len(s)])

\* int(s): the value, or ValueError when s is not a decimal literal
int(s) ==
    LET t == strip(s)
    IN  IF t # <<>> /\ \A i \in 1..Len(t) : t[i] \in DecimalChars
        THEN [exc |-> "", val |-> DecimalValue(t)]
        ELSE [exc |-> "ValueError", val |-> 0]

\* float(s) of a cell, for the cells the model draws (decimal literals or not)
float(s) == int(s)

-----------------------------------------------------------------------------
(* Python float as an exact fraction *)

RECURSIVE GCD(_, _)
GCD(a, b) == IF b = 0 THEN a ELSE GCD(b, a % b)

Frac(n, d) ==
    LET g == GCD(n, d)
    IN  IF g = 0 THEN [num |-> 0, den |-> 1] ELSE [num |-> n \div g, den |-> d \div g]

FracAdd(x, y) == Frac(x.num * y.den + y.num * x.den, x.den * y.den)
FracMul(x, y) == Frac(x.num * y.num, x.den * y.den)

Returned(x) == [exc |-> "", num |-> x.num, den |-> x.den]
Raised(e) == [exc |-> e, num |-> 0, den |-> 1]

\* n / d
truediv(n, d) == IF d = 0 THEN Raised("ZeroDivisionError") ELSE Returned(Frac(n, d))

-----------------------------------------------------------------------------
(* Datenmodell & Bewertung *)

Range(f) == {f[i] : i \in DOMAIN f}

mc_grader_unguarded(ans, corr) ==
    IF ans = <<>> THEN Returned(Frac(0, 1))
    ELSE LET pieces == split(ans, "|")
             u == {lower(strip(a)) : a \in {x \in Range(pieces) : x # <<>>}}
             c == {lower(strip(x)) : x \in Range(corr)}
         IN  IF u \ c # {} THEN Returned(Frac(0, 1))
             ELSE truediv(Cardinality(u), Cardinality(c))

mc_grader(ans, corr) ==
    IF ans = <<>> THEN Returned(Frac(0, 1))
    ELSE LET pieces == split(ans, "|")
             u == {lower(strip(a)) : a \in {x \in Range(pieces) : x # <<>>}}
             c == {lower(strip(x)) : x \in Range(corr)}
         IN  IF u \ c # {} THEN Returned(Frac(0, 1))
             ELSE IF c # {} THEN truediv(Cardinality(u), Cardinality(c))
                  ELSE Returned(Frac(0, 1))

open_grader(ans, corr) ==
    IF lower(strip(ans)) = lower(strip(corr))
    THEN Returned(Frac(1, 1))
    ELSE Returned(Frac(0, 1))


grade(q, ans) ==
    IF q.qtype = "mc" THEN mc_grader(ans, q.correct) ELSE open_grader(ans, q.correct)

-----------------------------------------------------------------------------
(* Fragen laden *)

\* The column names; "Antwortmoeglichkeiten" is the column Antwortmöglichkeiten.
Required == {"Frage", "Typ", "Antwortmoeglichkeiten", "Richtige Antworten"}

\* c.strip() of a column name, for the padded names the model draws
strip_name(c) ==
    CASE c = " Typ " -> "Typ"
      [] c = " Frage" -> "Frage"
      [] OTHER -> c

MapSeq(s, Op(_)) == [i \in 1..Len(s) |-> Op(s[i])]

\* [x.strip() for x in cell.split(";") if x.strip()]
stripped_pieces(cell) ==
    SelectSeq(MapSeq(split(cell, ";"), strip), LAMBDA x : x # <<>>)

\* [opts[i] for i in idx if 0 <= i < len(opts)]
resolve_indices(opts, idx) ==
    LET inrange == SelectSeq(idx, LAMBDA i : 0 <= i /\ i < Len(opts))
    IN  [k \in 1..Len(inrange) |-> opts[inrange[k] + 1]]

correct_list_literal(opts, cell) ==
    [exc |-> "", list |-> stripped_pieces(cell)]

\* The correct answers of a multiple-choice row: indices or literal labels
correct_list(opts, cell) ==
    LET corr == strip(cell)
    IN  IF isdigit(replace_empty(corr, ";"))
        THEN LET items == SelectSeq(split(corr, ";"), LAMBDA i : i # <<>>)
                 ints == MapSeq(items, int)
             IN  IF \E k \in 1..Len(ints) : ints[k].exc # ""
                 THEN [exc |-> "ValueError", list |-> <<>>]
                 ELSE [exc |-> "",
                       list |-> resolve_indices(opts, [k \in 1..Len(ints) |-> ints[k].val - 1])]
        ELSE [exc |-> "", list |-> stripped_pieces(cell)]

NoQuestion == [prompt |-> <<>>, qtype |-> "none", correct |-> <<>>, options |-> <<>>,
               weight |-> 0]

\* One pass of the loop of _df_to_questions: the Question of a row, or the exception
row_question(row, columns) ==
    LET qtype == lower(strip(row["Typ"]))
        prompt == strip(row["Frage"])
        weight == IF "Gewicht" \in columns THEN float(row["Gewicht"])
                  ELSE [exc |-> "", val |-> 1]
        corr == strip(row["Richtige Antworten"])
    IN  IF weight.exc # "" THEN [exc |-> weight.exc, q |-> NoQuestion]
        ELSE IF qtype = <<"m", "c">>
        THEN LET opts == stripped_pieces(row["Antwortmoeglichkeiten"])
                 cl == correct_list(opts, row["Richtige Antworten"])
             IN  IF cl.exc # "" THEN [exc |-> cl.exc, q |-> NoQuestion]
                 ELSE [exc |-> "",
                       q |-> [prompt |-> prompt, qtype |-> "mc", correct |-> cl.list,
                              options |-> opts, weight |-> weight.val]]
        ELSE [exc |-> "",
              q |-> [prompt |-> prompt, qtype |-> "open", correct |-> corr,
                     options |-> <<>>, weight |-> weight.val]]

RECURSIVE rows_to_questions(_, _)
rows_to_questions(rows, columns) ==
    IF rows = <<>> THEN [exc |-> "", qs |-> <<>>]
    ELSE LET first == row_question(Head(rows), columns)
         IN  IF first.exc # "" THEN [exc |-> first.exc, qs |-> <<>>]
             ELSE LET rest == rows_to_questions(Tail(rows), columns)
                  IN  IF rest.exc # "" THEN rest
                      ELSE [exc |-> "", qs |-> <<first.q>> \o rest.qs]

_df_to_questions(d) == rows_to_questions(d.rows, d.columns)

\* load_questions(file): the questions, or the exception raised; missing holds the
\* columns that "Fehlende Spalten: ..." names
load_questions(file) ==
    LET columns == {strip_name(c) : c \in file.columns}
    IN  IF ~(Required \subseteq columns)
        THEN [exc |-> "ValueError", missing |-> Required \ columns, qs |-> <<>>]
        ELSE LET r == _df_to_questions([columns |-> columns, rows |-> file.rows])
             IN  [exc |-> r.exc, missing |-> {}, qs |-> r.qs]

-----------------------------------------------------------------------------
(* The stores and the respondent's session *)

QuizIds == {"q1", "q2"}

VALID_DAYS == 7

NoTable == [columns |-> {}, rows |-> <<>>]
NoFile == [exists |-> FALSE, mtime |-> 0, table |-> NoTable]
NoSession == [open |-> FALSE, quiz_id |-> "none", name |-> <<>>, widgets |-> <<>>,
              page |-> "none", submits |-> 0]
NoRun == [script |-> "none", event |-> "none", quiz |-> "none", at |-> 0,
          outcome |-> "none", loaded |-> FALSE, graded |-> FALSE, saved |-> FALSE,
          upload |-> NoTable, missing |-> {}, issued |-> "none", nquestions |-> 0]
NotRun == [exc |-> "not run", missing |-> {}, qs |-> <<>>]
NotGraded == [ans |-> <<>>, exc |-> "not graded", num |-> 0, den |-> 1]

appVars == <<now, inbox, qfiles, rfiles, sess, run>>
pureVars == <<df, parsed, graded>>

IdleApp ==
    /\ now = 0
    /\ inbox = {}
    /\ qfiles = [q \in QuizIds |-> NoFile]
    /\ rfiles = [q \in QuizIds |-> <<>>]
    /\ sess = NoSession
    /\ run = NoRun

IdlePure ==
    /\ df = NoTable
    /\ parsed = NotRun
    /\ graded = NotGraded

-----------------------------------------------------------------------------
(* Ergebnis anhängen *)

\* round(x, 2), to the nearest hundredth, a tie to the even one
round2(x) ==
    LET n == 100 * x.num
        q == n \div x.den
        r == n % x.den
    IN  IF 2 * r > x.den \/ (2 * r = x.den /\ q % 2 = 1)
        THEN Frac(q + 1, 100)
        ELSE Frac(q, 100)

RECURSIVE SumValues(_, _)
SumValues(f, keys) ==
    IF keys = {} THEN Frac(0, 1)
    ELSE LET k == CHOOSE x \in keys : TRUE
         IN  FracAdd(f[k], SumValues(f, keys \ {k}))

\* sum(scores.values())
sum_values(scores) == SumValues(scores, DOMAIN scores)

\* The row save_result builds: Name, Zeit, Total, and F{i} Antwort / F{i} Punkte
result_row(name, answers, scores, questions, t) ==
    [kind |-> "row", Name |-> name, Zeit |-> t, Total |-> sum_values(scores),
     F |-> [i \in 1..Len(questions) |->
               [Antwort |-> answers[questions[i].prompt],
                Punkte |-> round2(scores[questions[i].prompt])]]]

\* The header line to_csv writes for a row: its column names
header_line(row) ==
    [kind |-> "header", Name |-> <<>>, Zeit |-> 0, Total |-> Frac(0, 1),
     F |-> [i \in 1..Len(row.F) |-> [Antwort |-> <<>>, Punkte |-> Frac(0, 1)]]]

to_csv_overwrite(lines, row, header) ==
    (IF header THEN <<header_line(row)>> ELSE <<>>) \o <<row>>

\* DataFrame([row]).to_csv(path, mode="a", index=False, header=header)
to_csv_append(lines, row, header) ==
    lines \o (IF header THEN <<header_line(row)>> ELSE <<>>) \o <<row>>

\* os.path.exists(path) of a results file
results_exist(lines) == lines # <<>>

save_result(name, answers, scores, questions, quiz_id, files, t) ==
    [files EXCEPT ![quiz_id] =
        to_csv_append(@, result_row(name, answers, scores, questions, t),
                      ~results_exist(@))]

-----------------------------------------------------------------------------
(* QUIZ-MODUS *)

expired_swapped(t, mtime) == mtime - t > VALID_DAYS

\* datetime.now() - fromtimestamp(getmtime(qfile)) > timedelta(days=7)
expired(t, mtime) == t - mtime > VALID_DAYS

RECURSIVE join(_, _)
join(sel, sep) ==
    IF sel = <<>> THEN <<>>
    ELSE IF Len(sel) = 1 THEN sel[1]
    ELSE sel[1] \o <<sep>> \o join(Tail(sel), sep)

Prompts(questions) == {questions[i].prompt : i \in 1..Len(questions)}

\* A dict keyed by prompt keeps the entry of the last question with that prompt
LastWith(questions, p) ==
    CHOOSE i \in 1..Len(questions) :
        /\ questions[i].prompt = p
        /\ \A j \in 1..Len(questions) : j > i => questions[j].prompt # p

\* The widgets of a form not yet touched: nothing selected, no text.  A widget's
\* value is a list of strings: the options picked, or the one text typed.
default_widgets(questions) ==
    [i \in 1..Len(questions) |->
        IF questions[i].qtype = "mc" THEN <<>> ELSE << <<>> >>]

\* answers[q.prompt] = "|".join(sel)  or  the text input
form_answers(questions, widgets) ==
    [p \in Prompts(questions) |->
        LET i == LastWith(questions, p)
        IN  IF questions[i].qtype = "mc" THEN join(widgets[i], "|") ELSE widgets[i][1]]

\* q.weight * mc_grader(...)  or  q.weight * open_grader(...)
weighted_score(q, ans) ==
    LET g == grade(q, ans)
    IN  FracMul(Frac(q.weight, 1), [num |-> g.num, den |-> g.den])

\* scores = {q.prompt: ... for q in questions}
form_scores(questions, answers) ==
    [p \in Prompts(questions) |->
        weighted_score(questions[LastWith(questions, p)], answers[p])]

\* The page below the expiry gate, for the questions r that load_questions
\* returned: the name input, the form, the submit handler
quiz_page(s, event, r, results, t) ==
    LET base == [NoRun EXCEPT !.script = "quiz", !.event = event, !.quiz = s.quiz_id,
                              !.at = t, !.loaded = TRUE, !.nquestions = Len(r.qs)]
    IN  IF s.name = <<>>
        THEN [sess |-> [s EXCEPT !.widgets = <<>>, !.page = "name"],
              rfiles |-> results,
              run |-> [base EXCEPT !.outcome = "name"]]
        ELSE Bind(IF s.page \in {"form", "thanks"} THEN s.widgets
                  ELSE default_widgets(r.qs),
                  LAMBDA widgets :
             IF event = "submit"
             THEN [sess |-> [s EXCEPT !.widgets = widgets, !.page = "thanks",
                                      !.submits = @ + 1],
                   rfiles |-> Bind(form_answers(r.qs, widgets), LAMBDA answers :
                                  save_result(s.name, answers, form_scores(r.qs, answers),
                                              r.qs, s.quiz_id, results, t)),
                   run |-> [base EXCEPT !.outcome = "submitted", !.graded = TRUE,
                                        !.saved = TRUE]]
             ELSE [sess |-> [s EXCEPT !.widgets = widgets, !.page = "form"],
                   rfiles |-> results,
                   run |-> [base EXCEPT !.outcome = "form"]])

\* st.error(...); st.stop(): nothing below is rendered, so the widgets' state is dropped
quiz_stopped(s, event, outcome, results, t) ==
    [sess |-> [s EXCEPT !.name = <<>>, !.widgets = <<>>, !.page = "error"],
     rfiles |-> results,
     run |-> [NoRun EXCEPT !.script = "quiz", !.event = event, !.quiz = s.quiz_id,
                           !.at = t, !.outcome = outcome]]

\* One run of the page script in quiz mode, for the session s and the event that
\* triggered it: the session, the results files and what the run did
quiz_script(s, event, files, results, t) ==
    IF ~files[s.quiz_id].exists THEN quiz_stopped(s, event, "not found", results, t)
    ELSE IF expired(t, files[s.quiz_id].mtime)
    THEN quiz_stopped(s, event, "expired", results, t)
    ELSE Bind(load_questions(files[s.quiz_id].table), LAMBDA r :
              IF r.exc # "" THEN quiz_stopped(s, event, r.exc, results, t)
              ELSE quiz_page(s, event, r, results, t))

RunQuizScript(s, event) ==
    \E out \in {quiz_script(s, event, qfiles, rfiles, now)} :
        /\ sess' = out.sess
        /\ rfiles' = out.rfiles
        /\ run' = out.run
        /\ UNCHANGED <<now, inbox, qfiles, pureVars, procs>>

(* Bounds of the respondent's inputs *)
MaxTextLen == 1
MaxResults == 2
MaxTime == 8
MaxQuestions == 2
MaxProcs == 2

TextAlphabet == {"a"}
Names == {<<"n">>}

\* The lists st.multiselect can return: the options picked, in the order picked
Selections(options) ==
    {sel \in StrUpTo(Range(options), Len(options)) :
        \A i, j \in 1..Len(sel) : i # j => sel[i] # sel[j]}

StoredQuestions(q) == load_questions(qfiles[q].table).qs

TotalRows == Cardinality({<<q, i>> \in QuizIds \X (1..(2 * MaxResults)) :
                             i <= Len(rfiles[q]) /\ rfiles[q][i].kind = "row"})

\* A respondent opens /?quiz_id=q in a new browser session
OpenLink(q) ==
    RunQuizScript([NoSession EXCEPT !.open = TRUE, !.quiz_id = q], "load")

\* The respondent types into "Dein Name"
EnterName(n) ==
    /\ sess.open
    /\ sess.page \in {"name", "form", "thanks"}
    /\ n # sess.name
    /\ RunQuizScript([sess EXCEPT !.name = n], "name")

\* The respondent changes the widget of question i
SetAnswer(i, v) ==
    /\ sess.open
    /\ sess.page \in {"form", "thanks"}
    /\ i \in 1..Len(sess.widgets)
    /\ v # sess.widgets[i]
    /\ RunQuizScript([sess EXCEPT !.widgets[i] = v], "answer")

AnswerChoices(q) ==
    IF q.qtype = "mc" THEN Selections(q.options)
    ELSE {<<text>> : text \in StrUpTo(TextAlphabet, MaxTextLen)}

ChangeAnswer ==
    /\ sess.open
    /\ sess.page \in {"form", "thanks"}
    /\ qfiles[sess.quiz_id].exists
    /\ \E questions \in {StoredQuestions(sess.quiz_id)} :
           \E i \in 1..Len(questions) :
               \E v \in AnswerChoices(questions[i]) : SetAnswer(i, v)

\* The respondent clicks "Antworten absenden"
ClickSubmit ==
    /\ sess.open
    /\ sess.page \in {"form", "thanks"}
    /\ TotalRows < MaxResults
    /\ RunQuizScript(sess, "submit")

\* The respondent clicks "Nächste Person": in the rerun "Antworten absenden" is
\* not the clicked button, so the block that holds "Nächste Person" is skipped
ClickNext ==
    /\ sess.open
    /\ sess.page = "thanks"
    /\ RunQuizScript(sess, "next")

Tick ==
    /\ now < MaxTime
    /\ now' = now + 1
    /\ UNCHANGED <<inbox, qfiles, rfiles, sess, run, pureVars, procs>>

-----------------------------------------------------------------------------
(* ADMIN-MODUS *)

admin_create_unvalidated(u, id, files, t) ==
    Bind(load_questions(u), LAMBDA r :
        [qfiles |-> [files EXCEPT ![id] = [exists |-> TRUE, mtime |-> t, table |-> u]],
         run |-> [NoRun EXCEPT !.script = "admin", !.event = "create", !.at = t,
                      !.upload = u, !.missing = r.missing,
                      !.outcome = IF r.exc # "" THEN "Dateifehler" ELSE "created",
                      !.issued = id]])

\* "Quiz-Link erstellen" with the file u chosen and uuid4 giving id
admin_create(u, id, files, t) ==
    Bind(load_questions(u), LAMBDA r :
        IF r.exc # ""
        THEN [qfiles |-> files,
              run |-> [NoRun EXCEPT !.script = "admin", !.event = "create", !.at = t,
                           !.upload = u, !.outcome = "Dateifehler",
                           !.missing = r.missing]]
        ELSE [qfiles |-> [files EXCEPT ![id] = [exists |-> TRUE, mtime |-> t, table |-> u]],
              run |-> [NoRun EXCEPT !.script = "admin", !.event = "create", !.at = t,
                           !.upload = u, !.outcome = "created", !.issued = id,
                           !.nquestions = Len(r.qs)]])

\* uuid4 is taken not to repeat an identifier already issued
CreateQuizLink(u, id) ==
    /\ ~qfiles[id].exists
    /\ \E out \in {admin_create(u, id, qfiles, now)} :
           /\ qfiles' = out.qfiles
           /\ run' = out.run
    /\ UNCHANGED <<now, inbox, rfiles, sess, pureVars, procs>>

\* "Quiz-Link erstellen" with no file chosen
CreateWithoutFile ==
    /\ run' = [NoRun EXCEPT !.script = "admin", !.event = "create", !.at = now,
                            !.outcome = "Bitte erst eine Datei waehlen."]
    /\ UNCHANGED <<now, inbox, qfiles, rfiles, sess, pureVars, procs>>

-----------------------------------------------------------------------------
(* The application: an administrator and a respondent *)

Cells(frage, typ, opts, corr, gewicht) ==
    [c \in Required \cup {"Gewicht"} |->
        CASE c = "Frage" -> frage
          [] c = "Typ" -> typ
          [] c = "Antwortmoeglichkeiten" -> opts
          [] c = "Richtige Antworten" -> corr
          [] OTHER -> gewicht]

\* A file with the given column names, its rows keyed by the stripped names
Upload(columns, rows) ==
    [columns |-> columns,
     rows |-> [i \in 1..Len(rows) |->
                  [c \in {strip_name(x) : x \in columns} |-> rows[i][c]]]]

OpenRow == Cells(<<"p">>, <<"o", "p", "e", "n">>, <<>>, <<"a">>, <<"1">>)
McRow == Cells(<<"q">>, <<"M", "C">>, <<"a">>, <<"0", ";", "1">>, <<"2">>)
BadWeightRow == Cells(<<"p">>, <<"m", "c">>, <<"a">>, <<"1">>, <<"x">>)

ColumnChoices ==
    { Required \cup {"Gewicht"},
      {" Frage", " Typ ", "Antwortmoeglichkeiten", "Richtige Antworten"},
      {"Frage", "Antwortmoeglichkeiten", "Gewicht"} }

AppInbox ==
    {Upload(cols, rows) : cols \in ColumnChoices, rows \in {<<McRow>>}}
    \cup {Upload(Required, <<OpenRow>>),
          Upload(Required \cup {"Gewicht"}, <<BadWeightRow>>)}

Init ==
    /\ now = 0
    /\ inbox = AppInbox
    /\ qfiles = [q \in QuizIds |-> NoFile]
    /\ rfiles = [q \in QuizIds |-> <<>>]
    /\ sess = NoSession
    /\ run = NoRun
    /\ IdlePure
    /\ procs = <<>>

\* The administrator has just created the quiz q1
InitExpiry ==
    /\ now = 0
    /\ inbox = {}
    /\ qfiles = admin_create(Upload(Required, <<OpenRow>>), "q1",
                             [q \in QuizIds |-> NoFile], 0).qfiles
    /\ rfiles = [q \in QuizIds |-> <<>>]
    /\ sess = NoSession
    /\ run = NoRun
    /\ IdlePure
    /\ procs = <<>>

Next ==
    \/ \E u \in inbox, id \in QuizIds : CreateQuizLink(u, id)
    \/ CreateWithoutFile
    \/ \E q \in QuizIds : OpenLink(q)
    \/ \E n \in Names \cup {<<>>} : EnterName(n)
    \/ ChangeAnswer
    \/ ClickSubmit
    \/ ClickNext

NextExpiry ==
    \/ \E q \in QuizIds : OpenLink(q)
    \/ \E n \in Names \cup {<<>>} : EnterName(n)
    \/ ChangeAnswer
    \/ ClickSubmit
    \/ ClickNext
    \/ Tick

Spec == Init /\ [][Next]_vars

SpecExpiry == InitExpiry /\ [][NextExpiry]_vars

-----------------------------------------------------------------------------
(* The submit handler on drawn quizzes and answers *)

SubmitRows ==
    {Cells(f, t, <<"a", ";", "b">>, c, w) :
        f \in {<<"p">>, <<"q">>}, t \in {<<"m", "c">>, <<"o">>},
        c \in {<<"a">>, <<"a", ";", "b">>}, w \in {<<"1">>, <<"2">>}}

SubmitTables(n) ==
    {Upload(Required \cup {"Gewicht"}, rows) : rows \in StrUpTo(SubmitRows, n)}

RECURSIVE WidgetStates(_)
WidgetStates(questions) ==
    IF questions = <<>> THEN {<<>>}
    ELSE {<<v>> \o w : v \in AnswerChoices(Head(questions)),
                       w \in WidgetStates(Tail(questions))}

\* A respondent who has opened the quiz q1, typed a name and filled in the form
InitSubmit ==
    /\ now = 0
    /\ inbox = {}
    /\ \E t \in SubmitTables(MaxQuestions) :
          /\ qfiles = [q \in QuizIds |->
                          IF q = "q1" THEN [exists |-> TRUE, mtime |-> 0, table |-> t]
                          ELSE NoFile]
          /\ \E w \in WidgetStates(load_questions(t).qs) :
                /\ sess = [open |-> TRUE, quiz_id |-> "q1", name |-> <<"n">>,
                           widgets |-> w, page |-> "form", submits |-> 0]
                /\ run = [NoRun EXCEPT !.script = "quiz", !.event = "answer",
                              !.quiz = "q1", !.outcome = "form", !.loaded = TRUE,
                              !.nquestions = Len(load_questions(t).qs)]
    /\ rfiles = [q \in QuizIds |-> <<>>]
    /\ IdlePure
    /\ procs = <<>>

NextSubmit == ClickSubmit

SpecSubmit == InitSubmit /\ [][NextSubmit]_vars

-----------------------------------------------------------------------------
(* Respondent sessions that run save_result at the same time *)

ProcIds == 1..MaxProcs

\* Each session is about to call save_result for the answers of its form
InitConc ==
    /\ now = 0
    /\ inbox = {}
    /\ qfiles = [q \in QuizIds |->
                    [exists |-> TRUE, mtime |-> 0, table |-> Upload(Required, <<OpenRow>>)]]
    /\ rfiles = [q \in QuizIds |-> <<>>]
    /\ sess = NoSession
    /\ run = NoRun
    /\ IdlePure
    /\ procs \in [ProcIds ->
                     [pc : {"start"}, quiz_id : QuizIds, name : Names, header : {FALSE},
                      widgets : WidgetStates(load_questions(Upload(Required, <<OpenRow>>)).qs)]]

\* save_result up to the evaluation of to_csv's arguments:
\* header = not os.path.exists(path)
SaveCheck(p) ==
    /\ procs[p].pc = "start"
    /\ procs' = [procs EXCEPT ![p].pc = "write",
                              ![p].header = ~results_exist(rfiles[procs[p].quiz_id])]
    /\ UNCHANGED <<appVars, pureVars>>

\* to_csv opens the file in append mode and writes the header, if asked, and the row
SaveWrite(p) ==
    /\ procs[p].pc = "write"
    /\ \E questions \in {StoredQuestions(procs[p].quiz_id)} :
         \E answers \in {form_answers(questions, procs[p].widgets)} :
           rfiles' = [rfiles EXCEPT ![procs[p].quiz_id] =
                         to_csv_append(@, result_row(procs[p].name, answers,
                                              form_scores(questions, answers),
                                              questions, now),
                                       procs[p].header)]
    /\ procs' = [procs EXCEPT ![p].pc = "done"]
    /\ UNCHANGED <<now, inbox, qfiles, sess, run, pureVars>>

NextConc ==
    \/ \E p \in ProcIds : SaveCheck(p)
    \/ \E p \in ProcIds : SaveWrite(p)

SpecConc == InitConc /\ [][NextConc]_vars

-----------------------------------------------------------------------------
(* The parser and the graders as pure functions of drawn inputs *)

OptsAlphabet == {"a", "b", ";"}
CorrAlphabet == {"0", "1", "2", ";", "a", "^2"}
RefAlphabet == {"a", "b", ";", " "}
AnsAlphabet == {"a", "B", "|", " "}
McCells == {<<" ", "M", "C">>}

OneRow(typ, opts, corr) ==
    [columns |-> Required,
     rows |-> <<[c \in Required |->
                    CASE c = "Frage" -> <<"p">>
                      [] c = "Typ" -> typ
                      [] c = "Antwortmoeglichkeiten" -> opts
                      [] OTHER -> corr]>>]

ParseTables(optsLen, corrLen) ==
    {OneRow(t, o, c) : t \in McCells, o \in StrUpTo(OptsAlphabet, optsLen),
                       c \in StrUpTo(CorrAlphabet, corrLen)}
    \cup {OneRow(<<"o">>, <<>>, c) : c \in StrUpTo(CorrAlphabet, corrLen)}

GradeTables(refLen) ==
    {OneRow(t, <<"a", ";", "b">>, c) : t \in {<<"m", "c">>, <<"o">>},
                                       c \in StrUpTo(RefAlphabet, refLen)}

InitParse ==
    /\ df \in ParseTables(MaxOptsLen, MaxCorrLen)
    /\ parsed = NotRun
    /\ graded = NotGraded
    /\ IdleApp
    /\ procs = <<>>

InitGrade ==
    /\ df \in GradeTables(MaxRefLen)
    /\ parsed = NotRun
    /\ graded = NotGraded
    /\ IdleApp
    /\ procs = <<>>

\* load_questions(df)
LoadQuestions ==
    /\ parsed = NotRun
    /\ parsed' = load_questions(df)
    /\ UNCHANGED <<df, graded, appVars, procs>>

\* The grader the submit handler picks for the question, on one raw answer
Grade(ans) ==
    /\ parsed.exc = ""
    /\ parsed.qs # <<>>
    /\ graded = NotGraded
    /\ graded' = [ans |-> ans] @@ grade(parsed.qs[1], ans)
    /\ UNCHANGED <<df, parsed, appVars, procs>>

NextParse == LoadQuestions

NextGrade ==
    \/ LoadQuestions
    \/ \E ans \in StrUpTo(AnsAlphabet, MaxAnsLen) : Grade(ans)

SpecParse == InitParse /\ [][NextParse]_vars

SpecGrade == InitGrade /\ [][NextGrade]_vars

-----------------------------------------------------------------------------
(* Claims about the graders (SpecGrade) *)

HasGraded == graded # NotGraded

GradedQuestion == parsed.qs[1]

\* The rule as specified: split on '|', trim, drop empties, lowercase
SpecU(ans) ==
    {lower(x) : x \in {strip(piece) : piece \in Range(split(ans, "|"))} \ {<<>>}}

SpecC(corr) == {lower(x) : x \in Range(corr)}

SpecMcScore(ans, corr) ==
    IF ans = <<>> THEN Frac(0, 1)
    ELSE IF SpecU(ans) \ SpecC(corr) # {} THEN Frac(0, 1)
    ELSE IF SpecC(corr) = {} THEN Frac(0, 1)
    ELSE Frac(Cardinality(SpecU(ans)), Cardinality(SpecC(corr)))

\* C1: for every multiple-choice question and raw answer, mc_grader returns the
\* value of the specified rule: 0 for an empty answer, 0 when U has an element
\* outside C, 0 when C is empty, |U| / |C| otherwise, with U the trimmed, non-empty,
\* lowercased pieces of the answer and C the lowercased correct answers.
C1_McGraderRule ==
    (HasGraded /\ GradedQuestion.qtype = "mc")
        => /\ graded.exc = ""
           /\ [num |-> graded.num, den |-> graded.den]
                  = SpecMcScore(graded.ans, GradedQuestion.correct)

InUnitInterval(r) == r.den > 0 /\ 0 <= r.num /\ r.num <= r.den

\* C2 as stated: the fractional score of every parsed question and raw answer lies
\* in [0, 1], grading never raises, and an absent (empty) answer scores 0.
C2_ScoreInUnitNeverRaises ==
    HasGraded
        => /\ graded.exc = ""
           /\ InUnitInterval(graded)
           /\ (graded.ans = <<>> => graded.num = 0)

\* C2 as amended: the score lies in [0, 1] and grading never raises; an empty
\* answer scores 0 on every multiple-choice question and on every open-text
\* question whose reference answer is not empty.
C2_ScoreInUnitNeverRaisesAmended ==
    HasGraded
        => /\ graded.exc = ""
           /\ InUnitInterval(graded)
           /\ ((graded.ans = <<>>
                  /\ (GradedQuestion.qtype = "mc" \/ GradedQuestion.correct # <<>>))
                 => graded.num = 0)

\* A multiple-choice answer graded with partial credit 1/2
C2_Witness ==
    /\ HasGraded
    /\ GradedQuestion.qtype = "mc"
    /\ graded.num = 1
    /\ graded.den = 2

-----------------------------------------------------------------------------
(* Claims about the parser (SpecParse) *)

HasParsed == parsed # NotRun

ParsedRow == df.rows[1]

IsMcRow(row) == lower(strip(row["Typ"])) = <<"m", "c">>

IndexField(row) == replace_empty(strip(row["Richtige Antworten"]), ";")

OnlyDecimalDigits(s) == s # <<>> /\ \A i \in 1..Len(s) : s[i] \in DecimalChars

\* The 1-based indices a field lists
ListedIndices(field) ==
    MapSeq(SelectSeq(split(strip(field), ";"), LAMBDA x : x # <<>>), DecimalValue)

LabelsAt(options, field) ==
    LET kept == SelectSeq(ListedIndices(field), LAMBDA i : 1 <= i /\ i <= Len(options))
    IN  [k \in 1..Len(kept) |-> options[kept[k]]]

IndicesResolved ==
    /\ parsed.exc = ""
    /\ Len(parsed.qs) = 1
    /\ parsed.qs[1].correct
           = LabelsAt(parsed.qs[1].options, ParsedRow["Richtige Antworten"])

\* C3: for every multiple-choice row whose CorrectAnswers field, with ';' removed,
\* consists only of digits (the test str.isdigit makes), the parse does not fail
\* and the correct answers are exactly the labels options[i-1] of the listed
\* 1-based indices i with 1 <= i <= len(options); every other index is discarded.
C3_IndexResolution ==
    (HasParsed /\ IsMcRow(ParsedRow) /\ isdigit(IndexField(ParsedRow)))
        => IndicesResolved

\* The same for fields of the decimal digits 0-9 only, for which int() is defined
DecimalIndexResolution ==
    (HasParsed /\ IsMcRow(ParsedRow) /\ OnlyDecimalDigits(IndexField(ParsedRow)))
        => IndicesResolved

\* An index list of decimal digits of which one index resolves and one is discarded
DecimalIndexResolved ==
    /\ HasParsed
    /\ IsMcRow(ParsedRow)
    /\ OnlyDecimalDigits(IndexField(ParsedRow))
    /\ parsed.exc = ""
    /\ Len(ListedIndices(ParsedRow["Richtige Antworten"])) = 2
    /\ Len(parsed.qs[1].correct) = 1
    /\ Len(parsed.qs[1].options) = 2

ParsedMc == HasParsed /\ parsed.exc = "" /\ parsed.qs # <<>> /\ parsed.qs[1].qtype = "mc"

\* C4 as stated: every entry of a parsed multiple-choice question's
\* correct_answers is one of its options.
C4_CorrectAmongOptions ==
    ParsedMc => Range(parsed.qs[1].correct) \subseteq Range(parsed.qs[1].options)

\* C4 as amended: when the CorrectAnswers field, with ';' removed, consists only
\* of digits, every entry of correct_answers is one of the question's options
\* (indices out of range are dropped); literal labels are not validated against
\* the options.
C4_IndexedCorrectAmongOptions ==
    (ParsedMc /\ isdigit(IndexField(ParsedRow)))
        => Range(parsed.qs[1].correct) \subseteq Range(parsed.qs[1].options)

\* Two indices that both resolve
C4_Witness ==
    /\ ParsedMc
    /\ isdigit(IndexField(ParsedRow))
    /\ Len(parsed.qs[1].correct) = 2

-----------------------------------------------------------------------------
(* Claims about the submit handler (SpecSubmit) *)

LastLine(q) == rfiles[q][Len(rfiles[q])]

RECURSIVE SumOverQuestions(_, _)
SumOverQuestions(questions, answers) ==
    IF questions = <<>> THEN Frac(0, 1)
    ELSE FracAdd(weighted_score(Head(questions), answers[Head(questions).prompt]),
                 SumOverQuestions(Tail(questions), answers))

\* C5: the Total written in the result row equals the sum, with one term per
\* question of the parsed sequence, of question.weight x grade(question, answer).
C5_TotalIsWeightedSum ==
    run.saved
        => LastLine(run.quiz).Total
               = SumOverQuestions(StoredQuestions(run.quiz),
                                  form_answers(StoredQuestions(run.quiz), sess.widgets))

-----------------------------------------------------------------------------
(* Claims about the application (Spec, SpecExpiry) *)

UploadColumns(u) == {strip_name(c) : c \in u.columns}

LacksRequired(u) == u # NoTable /\ ~(Required \subseteq UploadColumns(u))

\* C6: a request for a quiz link with an upload that lacks a required column ends
\* in an error naming the missing columns, produces no questions, issues no quiz
\* identifier and leaves the stored quiz definitions unchanged.
C6_MissingColumnRejected ==
    [][(run'.script = "admin" /\ run'.event = "create" /\ LacksRequired(run'.upload))
          => /\ run'.outcome = "Dateifehler"
             /\ run'.missing = Required \ UploadColumns(run'.upload)
             /\ run'.nquestions = 0
             /\ run'.issued = "none"
             /\ qfiles' = qfiles]_vars

\* An upload without a required column was rejected while a quiz was stored
C6_Witness ==
    /\ run.script = "admin"
    /\ run.event = "create"
    /\ LacksRequired(run.upload)
    /\ run.outcome = "Dateifehler"
    /\ \E q \in QuizIds : qfiles[q].exists

\* C7: every run of the quiz page (a page load, a changed widget, a submit
\* click) for a definition file older than the 7-day window stops at the gate:
\* no questions loaded, no answer graded, no row appended.
C7_ExpiredQuizRejected ==
    (run.script = "quiz" /\ qfiles[run.quiz].exists
       /\ run.at - qfiles[run.quiz].mtime > VALID_DAYS)
        => (run.outcome = "expired" /\ ~run.loaded /\ ~run.graded /\ ~run.saved)

\* A respondent who had the form open clicks submit after the window has elapsed
C7_Witness ==
    /\ run.script = "quiz"
    /\ run.event = "submit"
    /\ run.outcome = "expired"
    /\ run.at - qfiles[run.quiz].mtime > VALID_DAYS

Rows(lines) == SelectSeq(lines, LAMBDA l : l.kind = "row")

IsPrefix(a, b) == Len(a) <= Len(b) /\ SubSeq(b, 1, Len(a)) = a

\* C9: a call of save_result for quiz q appends exactly one row to q's results
\* file, leaves every line already in it as it was, and leaves every other
\* results file unchanged; no other step changes a results file.
C9_AppendOnly ==
    [][\A q \in QuizIds :
          IF run'.saved /\ run'.quiz = q
          THEN /\ IsPrefix(rfiles[q], rfiles'[q])
               /\ Len(Rows(rfiles'[q])) = Len(Rows(rfiles[q])) + 1
          ELSE rfiles'[q] = rfiles[q]]_vars

\* A results file that received two rows
C9_Witness ==
    \E q \in QuizIds : Len(Rows(rfiles[q])) = 2 /\ run.saved /\ run.quiz = q

\* C10: within one respondent session at most one result row is appended.
C10_OneRowPerSession == sess.submits <= 1

-----------------------------------------------------------------------------
(* Claims about concurrent appends (SpecConc) *)

AllSaved == \A p \in DOMAIN procs : procs[p].pc = "done"

SavedFor(q) == {p \in DOMAIN procs : procs[p].quiz_id = q}

\* C8: when sessions run save_result concurrently, each results file ends up as
\* exactly one header followed by one row per submission.
C8_OneHeaderThenRows ==
    (procs # <<>> /\ AllSaved)
        => \A q \in QuizIds :
              \/ rfiles[q] = <<>> /\ SavedFor(q) = {}
              \/ /\ Len(rfiles[q]) = 1 + Cardinality(SavedFor(q))
                 /\ rfiles[q][1].kind = "header"
                 /\ \A i \in 2..Len(rfiles[q]) : rfiles[q][i].kind = "row"

=============================================================================
